---- MODULE Spec2Model ----
(***************************************************************************)
(* A model of lerobot/scripts/visualize_tri_dataset.py: visualize_dataset  *)
(* loads one episode of a TRI LBM dataset (actions.npz, observations.npz)  *)
(* and logs it, frame by frame, to a rerun recording.                      *)
(*                                                                         *)
(* The state is the call's arguments and locals, the part of the file      *)
(* system the call touches, and the rerun recording: the session, the      *)
(* viewer, the server, the two time axes and the records logged so far.    *)
(* One action is one statement or one loop iteration of the function.      *)
(* Timestamps are counted in steps of dt = 0.1 s.  An axis that was never  *)
(* set is <<>>, an axis set to v is <<v>>; so are the session and the      *)
(* server before rr.init and rr.serve, and the two arrays before they are  *)
(* loaded.  Python's None is the string "None".                            *)
(***************************************************************************)
EXTENDS Integers, Sequences, FiniteSets, TLC

VARIABLES
    pc,                 \* the statement the call is at
    mode, save, output_dir, episode_index,      \* arguments
    actions_loadable, observations_loadable,    \* whether np.load succeeds
    dir_exists,         \* whether output_dir is a directory on disk
    created,            \* directories and files the call has created
    loads,              \* np.load calls made so far, in order
    session,            \* rr.init: the application id, <<>> before
    spawned,            \* a local viewer was spawned
    served,             \* rr.serve: <<its arguments>>, <<>> before
    timeline,           \* [frame_index, timestamp]: the current time axes
    log,                \* records logged with rr.log, in emission order
    actions,            \* actions['actions'] once loaded
    t, i,               \* locals of the action loop
    observations,       \* observations.items() once loaded
    k, j,               \* channel being handled, frame within it
    outcome, error, result      \* how the call ended

vars == <<pc, mode, save, output_dir, episode_index, actions_loadable,
          observations_loadable, dir_exists, created, loads, session, spawned,
          served, timeline, log, actions, t, i, observations, k, j,
          outcome, error, result>>

(* Bounds of the checked instances *)
MaxFrames == 2
MaxDims == 2
MaxSide == 3

(* Defaults of the signature *)
web_port == 9090
ws_port == 9087

None == "None"
Modes == {"local", "distant", "remote"}
OutputDirs == {None, "/tmp/out"}
EpisodeIndices == {3}

(***************************************************************************)
(* Python's `pattern in key` on strings.                                   *)
(***************************************************************************)
Contains(key, pattern) ==
    \E p \in 1..(Len(key) - Len(pattern) + 1) :
        SubSeq(key, p, p + Len(pattern) - 1) = pattern

(* The branch of the observation loop a channel takes: if / elif / else. *)
ChannelKindNoSkip(key) ==
    IF Contains(key, "robot_") THEN "robot" ELSE "image"

ChannelKind(key) ==
    IF Contains(key, "robot_") THEN "robot"
    ELSE IF Contains(key, "_depth") THEN "depth"
    ELSE "image"

(***************************************************************************)
(* The archives np.load can return.  Frames, components, rows and columns  *)
(* are sequences; every cell holds a value that names its position.        *)
(***************************************************************************)
VectorArray(T, D) == [f \in 1..T |-> [d \in 1..D |-> (f - 1) * D + (d - 1)]]

ImageArray(T, H, W) ==
    [f \in 1..T |-> [r \in 1..H |-> [c \in 1..W |->
        100 * (f - 1) + 10 * (r - 1) + (c - 1)]]]

ActionArrays ==
    {VectorArray(T, D) : T \in 0..MaxFrames, D \in 0..MaxDims}

Layouts ==
    { <<>>,
      <<"robot_q", "cam", "cam_depth">>,
      <<"cam_depth", "robot_depth", "cam">>,
      <<"cam", "robot_q">>,
      <<"robot", "xrobot_q">> }

ChannelArray(key, T, D, H, W) ==
    IF Contains(key, "robot_") THEN VectorArray(T, D) ELSE ImageArray(T, H, W)

ObservationArchives ==
    { [n \in 1..Len(layout) |->
          [key |-> layout[n], value |-> ChannelArray(layout[n], T, D, H, W)]] :
      layout \in Layouts, T \in 0..MaxFrames, D \in 0..MaxDims,
      H \in 0..MaxSide, W \in 0..MaxSide }

(***************************************************************************)
(* rerun: time axes and records.                                           *)
(***************************************************************************)
NoTime == [frame_index |-> <<>>, timestamp |-> <<>>]

(* rr.set_time_sequence("frame_index", i); rr.set_time_seconds("timestamp", t) *)
ActionTimeAdvanced(tl, idx, secs) ==
    [frame_index |-> <<idx>>, timestamp |-> <<secs + 1>>]

ActionTime(tl, idx, secs) ==
    [frame_index |-> <<idx>>, timestamp |-> <<secs>>]

(* rr.set_time_sequence("frame_index", i) alone *)
ChannelTimeStamped(tl, idx) ==
    [frame_index |-> <<idx>>, timestamp |-> <<idx>>]

ChannelTime(tl, idx) == [tl EXCEPT !.frame_index = <<idx>>]

(* for dim_idx, val in enumerate(vec): rr.log(f"{prefix}/{dim_idx}", rr.Scalar(val)) *)
ScalarRecords(prefix, vec, tl) ==
    [d \in 1..Len(vec) |->
        [path |-> <<prefix, d - 1>>, kind |-> "Scalar",
         time |-> tl, value |-> vec[d]]]

(* The robot loop's body, one frame *)
RobotRecordsFirstOnly(key, vec, tl) ==
    IF vec = <<>> THEN <<>> ELSE ScalarRecords(key, <<vec[1]>>, tl)

RobotRecords(key, vec, tl) == ScalarRecords(key, vec, tl)

(* seq[::2] *)
RECURSIVE Stride2(_)
Stride2(seq) ==
    IF seq = <<>> THEN <<>>
    ELSE IF Len(seq) = 1 THEN seq
    ELSE <<Head(seq)>> \o Stride2(Tail(Tail(seq)))

(* image[::2, ::2] *)
DownsampleRowsOnly(image) == Stride2(image)

Downsample(image) ==
    LET rows == Stride2(image)
    IN  [r \in 1..Len(rows) |-> Stride2(rows[r])]

(* rr.log(key, rr.Image(image[::2, ::2])) *)
ImageRecord(key, image, tl) ==
    [path |-> <<key>>, kind |-> "Image", time |-> tl, value |-> Downsample(image)]

(***************************************************************************)
(* The call.                                                               *)
(***************************************************************************)
Init ==
    /\ pc = "check_save"
    /\ mode \in Modes
    /\ save \in BOOLEAN
    /\ output_dir \in OutputDirs
    /\ episode_index \in EpisodeIndices
    /\ actions_loadable \in BOOLEAN
    /\ observations_loadable \in BOOLEAN
    /\ dir_exists \in BOOLEAN
    /\ (output_dir = None => ~dir_exists)
    /\ created = {}
    /\ loads = <<>>
    /\ session = <<>>
    /\ spawned = FALSE
    /\ served = <<>>
    /\ timeline = NoTime
    /\ log = <<>>
    /\ actions = <<>>
    /\ t = 0
    /\ i = 0
    /\ observations = <<>>
    /\ k = 0
    /\ j = 0
    /\ outcome = "running"
    /\ error = None
    /\ result = None

Args == <<mode, save, output_dir, episode_index, actions_loadable, observations_loadable>>
Rerun == <<session, spawned, served, timeline, log>>
Disk == <<dir_exists, created>>
Locals == <<actions, t, i, observations, k, j>>

(* An exception leaves the function *)
Raise(err) ==
    /\ pc' = "done"
    /\ outcome' = "raised"
    /\ error' = err
    /\ result' = None

Return(value) ==
    /\ pc' = "done"
    /\ outcome' = "returned"
    /\ error' = None
    /\ result' = value

Goto(label) ==
    /\ pc' = label
    /\ UNCHANGED <<outcome, error, result>>

(* if save: assert output_dir is not None *)
CheckSaveSkipped ==
    /\ pc = "check_save"
    /\ Goto("check_mode")
    /\ UNCHANGED <<Args, Rerun, Disk, Locals, loads>>

CheckSave ==
    /\ pc = "check_save"
    /\ IF save /\ output_dir = None
       THEN Raise("AssertionError")
       ELSE Goto("check_mode")
    /\ UNCHANGED <<Args, Rerun, Disk, Locals, loads>>

(* if mode not in ["local", "distant"]: raise ValueError(mode) *)
CheckModeSkipped ==
    /\ pc = "check_mode"
    /\ Goto("init")
    /\ UNCHANGED <<Args, Rerun, Disk, Locals, loads>>

CheckMode ==
    /\ pc = "check_mode"
    /\ IF mode \notin {"local", "distant"}
       THEN Raise("ValueError")
       ELSE Goto("init")
    /\ UNCHANGED <<Args, Rerun, Disk, Locals, loads>>

(* spawn_local_viewer = mode == "local" and not save
   rr.init(f"episode_{episode_index}", spawn=spawn_local_viewer) *)
InitSink ==
    /\ pc = "init"
    /\ session' = <<"episode", episode_index>>
    /\ spawned' = (mode = "local" /\ ~save)
    /\ Goto(IF mode = "distant" THEN "serve" ELSE "load_actions")
    /\ UNCHANGED <<Args, Disk, Locals, loads, served, timeline, log>>

(* rr.serve(open_browser=False, web_port=web_port, ws_port=ws_port) *)
Serve ==
    /\ pc = "serve"
    /\ served' = <<[open_browser |-> FALSE, web_port |-> web_port,
                     ws_port |-> ws_port]>>
    /\ Goto("load_actions")
    /\ UNCHANGED <<Args, Disk, Locals, loads, session, spawned, timeline, log>>

(* actions = np.load(.../"actions.npz"); dt = 0.1; t = 0 *)
LoadActionsSwallowed ==
    /\ pc = "load_actions"
    /\ loads' = Append(loads, "actions.npz")
    /\ \E arr \in ActionArrays :
          /\ actions_loadable \/ arr = <<>>
          /\ actions' = arr
    /\ t' = 0
    /\ i' = 0
    /\ Goto("action_loop")
    /\ UNCHANGED <<Args, Rerun, Disk, observations, k, j>>

LoadActions ==
    /\ pc = "load_actions"
    /\ loads' = Append(loads, "actions.npz")
    /\ IF actions_loadable
       THEN /\ \E arr \in ActionArrays : actions' = arr
            /\ t' = 0
            /\ i' = 0
            /\ Goto("action_loop")
       ELSE /\ Raise("LoaderError")
            /\ UNCHANGED <<actions, t, i>>
    /\ UNCHANGED <<Args, Rerun, Disk, observations, k, j>>

(* One iteration of `for [i, action] in enumerate(actions['actions'])` *)
ActionFrame ==
    /\ pc = "action_loop"
    /\ i < Len(actions)
    /\ LET tl == ActionTime(timeline, i, t)
       IN  /\ timeline' = tl
           /\ log' = log \o ScalarRecords("action", actions[i + 1], tl)
    /\ t' = t + 1
    /\ i' = i + 1
    /\ Goto("action_loop")
    /\ UNCHANGED <<Args, Disk, loads, session, spawned, served, actions,
                   observations, k, j>>

(* observations = np.load(.../"observations.npz"), the action loop being over *)
LoadObservations ==
    /\ pc = "action_loop"
    /\ i = Len(actions)
    /\ loads' = Append(loads, "observations.npz")
    /\ IF observations_loadable
       THEN /\ \E obs \in ObservationArchives : observations' = obs
            /\ k' = 1
            /\ j' = 0
            /\ Goto("channels")
       ELSE /\ Raise("LoaderError")
            /\ UNCHANGED <<observations, k, j>>
    /\ UNCHANGED <<Args, Rerun, Disk, actions, t, i>>

AtChannel(kind) ==
    /\ pc = "channels"
    /\ k <= Len(observations)
    /\ ChannelKind(observations[k].key) = kind

(* One iteration of `for [i, robot_value] in enumerate(value)` *)
RobotFrame ==
    /\ AtChannel("robot")
    /\ j < Len(observations[k].value)
    /\ LET tl == ChannelTime(timeline, j)
       IN  /\ timeline' = tl
           /\ log' = log \o RobotRecords(observations[k].key,
                                         observations[k].value[j + 1], tl)
    /\ j' = j + 1
    /\ Goto("channels")
    /\ UNCHANGED <<Args, Disk, loads, session, spawned, served, actions, t, i,
                   observations, k>>

(* One iteration of `for [i, image] in enumerate(tqdm(value, desc=key))` *)
ImageFrame ==
    /\ AtChannel("image")
    /\ j < Len(observations[k].value)
    /\ LET tl == ChannelTime(timeline, j)
       IN  /\ timeline' = tl
           /\ log' = Append(log, ImageRecord(observations[k].key,
                                             observations[k].value[j + 1], tl))
    /\ j' = j + 1
    /\ Goto("channels")
    /\ UNCHANGED <<Args, Disk, loads, session, spawned, served, actions, t, i,
                   observations, k>>

(* elif '_depth' in key: pass *)
SkipDepth ==
    /\ AtChannel("depth")
    /\ k' = k + 1
    /\ j' = 0
    /\ Goto("channels")
    /\ UNCHANGED <<Args, Rerun, Disk, loads, actions, t, i, observations>>

(* A robot or image loop is exhausted: on to the next item *)
NextChannel ==
    /\ AtChannel("robot") \/ AtChannel("image")
    /\ j = Len(observations[k].value)
    /\ k' = k + 1
    /\ j' = 0
    /\ Goto("channels")
    /\ UNCHANGED <<Args, Rerun, Disk, loads, actions, t, i, observations>>

ChannelsDone ==
    /\ pc = "channels"
    /\ k > Len(observations)

(* if mode == "local" and save: output_dir.mkdir(parents=True, exist_ok=True);
   repo_id_str = repo_id.replace("/", "_") -- repo_id is bound nowhere *)
SaveLocal ==
    /\ ChannelsDone
    /\ mode = "local" /\ save
    /\ dir_exists' = TRUE
    /\ created' = IF dir_exists THEN created ELSE created \cup {output_dir}
    /\ Raise("NameError")
    /\ UNCHANGED <<Args, Rerun, Locals, loads>>

(* elif mode == "distant": print(...); try: while True: *)
EnterWait ==
    /\ ChannelsDone
    /\ mode = "distant"
    /\ Goto("wait")
    /\ UNCHANGED <<Args, Rerun, Disk, Locals, loads>>

(* Neither branch: the function falls off its end *)
ReturnNone ==
    /\ ChannelsDone
    /\ ~(mode = "local" /\ save)
    /\ mode # "distant"
    /\ Return(None)
    /\ UNCHANGED <<Args, Rerun, Disk, Locals, loads>>

(* time.sleep(1) *)
Sleep ==
    /\ pc = "wait"
    /\ UNCHANGED vars

(* except KeyboardInterrupt: print("Ctrl-C received. Exiting.") *)
InterruptUncaught ==
    /\ pc = "wait"
    /\ Raise("KeyboardInterrupt")
    /\ UNCHANGED <<Args, Rerun, Disk, Locals, loads>>

Interrupt ==
    /\ pc = "wait"
    /\ Return(None)
    /\ UNCHANGED <<Args, Rerun, Disk, Locals, loads>>

Next ==
    \/ CheckSave
    \/ CheckMode
    \/ InitSink
    \/ Serve
    \/ LoadActions
    \/ ActionFrame
    \/ LoadObservations
    \/ RobotFrame
    \/ ImageFrame
    \/ SkipDepth
    \/ NextChannel
    \/ SaveLocal
    \/ EnterWait
    \/ ReturnNone
    \/ Sleep
    \/ Interrupt

Spec == Init /\ [][Next]_vars

(***************************************************************************)
(* Properties.                                                             *)
(***************************************************************************)
IsAt(prefix, r) == r.path[1] = prefix

(* The records logged under a path prefix, in emission order *)
RecordsAt(prefix) == SelectSeq(log, LAMBDA r : IsAt(prefix, r))

ActionsLoaded == actions_loadable /\ Len(loads) >= 1
ObservationsLoaded == observations_loadable /\ Len(loads) >= 2

(* Components of a frame array's frames (0 when it has no frame) *)
Width(array) == IF Len(array) = 0 THEN 0 ELSE Len(array[1])

(* Frames of channel n whose loop iteration is over *)
FramesDone(n) ==
    IF n < k THEN Len(observations[n].value) ELSE IF n = k THEN j ELSE 0

NoIO ==
    /\ session = <<>>
    /\ ~spawned
    /\ served = <<>>
    /\ loads = <<>>
    /\ created = {}
    /\ log = <<>>

(* Records a whole archive of observations is due, by the naming rule *)
RECURSIVE ObservationRecordsDue(_)
ObservationRecordsDue(n) ==
    IF n = 0 THEN 0
    ELSE LET key == observations[n].key
             value == observations[n].value
         IN  ObservationRecordsDue(n - 1)
             + (IF Contains(key, "robot_") THEN Len(value) * Width(value)
                ELSE IF Contains(key, "_depth") THEN 0
                ELSE Len(value))

AllEmitted ==
    /\ i = Len(actions)
    /\ k > Len(observations)
    /\ Len(log) = Len(actions) * Width(actions)
                  + ObservationRecordsDue(Len(observations))

(* C1: with mode local, save set, an output directory given and both
   archives loadable, the call returns the path of the session file, which
   has been written under the output directory, the directory existing. *)
C1_SaveWritesFile ==
    (/\ mode = "local" /\ save /\ output_dir # None
     /\ actions_loadable /\ observations_loadable
     /\ pc = "done")
    => /\ outcome = "returned"
       /\ dir_exists
       /\ result # None
       /\ result \in created

(* C2, as stated: a channel whose name contains _depth, whatever else the
   name contains, has no record in the recording. *)
C2_AnyDepthNameSilent ==
    \A n \in 1..Len(observations) :
        Contains(observations[n].key, "_depth")
            => RecordsAt(observations[n].key) = <<>>

HandlingDepth ==
    /\ pc = "channels"
    /\ k <= Len(observations)
    /\ Contains(observations[k].key, "_depth")
    /\ ~Contains(observations[k].key, "robot_")

(* C2, amended: a channel whose name contains _depth and does not contain
   robot_ has no record in the recording, and the step that handles it
   changes neither time axis and logs nothing. *)
C2_DepthSkipped ==
    /\ [](\A n \in 1..Len(observations) :
            (/\ Contains(observations[n].key, "_depth")
             /\ ~Contains(observations[n].key, "robot_"))
                => RecordsAt(observations[n].key) = <<>>)
    /\ [][HandlingDepth => (timeline' = timeline /\ log' = log /\ k' = k + 1)]_vars

C2_Witness ==
    \E n \in 1..Len(observations) :
        /\ n < k
        /\ Contains(observations[n].key, "_depth")
        /\ ~Contains(observations[n].key, "robot_")
        /\ Len(observations[n].value) > 0
        /\ Width(observations[n].value) > 0

(* C3, as stated: when an archive fails to load, no record at all has been
   logged. *)
C3_NothingLoggedOnLoadFailure ==
    error = "LoaderError" => log = <<>>

(* C3, amended: an archive that cannot be loaded ends the call with the
   loader's error at its np.load, each archive being loaded at most once;
   when it is the actions archive no record has been logged, when it is the
   observations archive the records logged are exactly those of the action
   loop. *)
C3_LoadFailureAborts ==
    /\ Len(loads) <= 2
    /\ (Len(loads) >= 1 => loads[1] = "actions.npz")
    /\ (Len(loads) = 2 => loads[2] = "observations.npz")
    /\ (Len(loads) >= 1 /\ ~actions_loadable)
        => /\ pc = "done" /\ outcome = "raised" /\ error = "LoaderError"
           /\ Len(loads) = 1
           /\ log = <<>>
    /\ (Len(loads) = 2 /\ ~observations_loadable)
        => /\ pc = "done" /\ outcome = "raised" /\ error = "LoaderError"
           /\ Len(log) = Len(actions) * Width(actions)
           /\ \A n \in 1..Len(log) : IsAt("action", log[n])
    /\ error = "LoaderError"
        => ~actions_loadable \/ (Len(loads) = 2 /\ ~observations_loadable)

C3_Witness ==
    /\ error = "LoaderError"
    /\ actions_loadable
    /\ Len(log) >= 2

(* C4: with a mode other than local and distant the call raises, and the
   sink is never initialised, no viewer spawned, nothing served, no archive
   loaded, nothing created on disk and nothing logged. *)
C4_BadModeNoIO ==
    mode \notin {"local", "distant"}
        => /\ NoIO
           /\ pc \in {"check_save", "check_mode", "done"}
           /\ pc = "done" => (/\ outcome = "raised"
                              /\ error \in {"AssertionError", "ValueError"})

C4_Witness ==
    /\ mode \notin {"local", "distant"}
    /\ pc = "done"
    /\ error = "ValueError"

(* C5: with save set and no output directory the call raises the assertion
   error, for every mode, having done none of the above. *)
C5_SaveWithoutDirNoIO ==
    (save /\ output_dir = None)
        => /\ NoIO
           /\ pc \in {"check_save", "done"}
           /\ pc = "done" => (outcome = "raised" /\ error = "AssertionError")

C5_Witness ==
    /\ save /\ output_dir = None
    /\ pc = "done"
    /\ error = "AssertionError"

(* C6, as stated: with mode distant and both archives loadable, for either
   value of save, the call ends by returning normally. *)
C6_DistantAlwaysReturns ==
    (/\ mode = "distant"
     /\ actions_loadable /\ observations_loadable
     /\ pc = "done")
    => (outcome = "returned" /\ error = None)

DistantRun ==
    /\ mode = "distant"
    /\ save => output_dir # None
    /\ actions_loadable /\ observations_loadable

(* C6, amended: with mode distant, an output directory given whenever save
   is set, and both archives loadable: nothing is logged before rr.serve,
   the wait loop is entered only with every action and observation record
   logged, it is left only by the interrupt, and the call then returns None
   normally, having created nothing on disk. *)
C6_DistantServesThenWaits ==
    /\ [](DistantRun =>
            /\ (pc \in {"load_actions", "action_loop", "channels", "wait", "done"}
                   => served = <<[open_browser |-> FALSE, web_port |-> web_port,
                                  ws_port |-> ws_port]>>)
            /\ (log # <<>> => served # <<>>)
            /\ (pc = "wait" => (AllEmitted /\ outcome = "running"))
            /\ (pc = "done" => /\ AllEmitted
                               /\ outcome = "returned"
                               /\ error = None
                               /\ result = None
                               /\ created = {}))
    /\ [][(DistantRun /\ pc = "wait") => (pc' = "wait" \/ pc' = "done")]_vars
    /\ [][(DistantRun /\ pc' = "done") => pc = "wait"]_vars

C6_Witness ==
    /\ DistantRun
    /\ save
    /\ pc = "done"
    /\ outcome = "returned"
    /\ Len(log) >= 4

(* C7: once frame i of T frames by D dimensions is logged, the action
   records are the first i * D records of the recording, record n being
   dimension (n mod D) of frame (n div D) at path action/<d>, with the frame
   index and the timestamp (in steps of 0.1) both equal to the frame's
   number; the whole loop gives T * D of them. *)
C7_ActionStream ==
    ActionsLoaded =>
        LET D == Width(actions)
            recs == RecordsAt("action")
        IN  /\ Len(recs) = i * D
            /\ pc # "action_loop"
                 => (i = Len(actions) /\ Len(recs) = Len(actions) * D)
            /\ SubSeq(log, 1, Len(recs)) = recs
            /\ \A n \in 1..Len(recs) :
                  LET f == (n - 1) \div D
                      d == (n - 1) % D
                  IN  recs[n] = [path |-> <<"action", d>>, kind |-> "Scalar",
                                 time |-> [frame_index |-> <<f>>,
                                           timestamp |-> <<f>>],
                                 value |-> actions[f + 1][d + 1]]

C7_Witness ==
    /\ ActionsLoaded
    /\ Len(actions) >= 2
    /\ Width(actions) >= 2
    /\ i = Len(actions)
    /\ Len(RecordsAt("action")) >= 4

(* C8: a channel whose name contains robot_ has, once f of its frames are
   handled, f * D scalar records, record n being component (n mod D) of
   frame (n div D) at path <name>/<d> with the frame index equal to the
   frame's number; the whole channel of T frames gives T * D of them. *)
C8_RobotChannel ==
    \A n \in 1..Len(observations) :
        Contains(observations[n].key, "robot_") =>
            LET key == observations[n].key
                value == observations[n].value
                D == Width(value)
                recs == RecordsAt(key)
            IN  /\ Len(recs) = FramesDone(n) * D
                /\ n < k => Len(recs) = Len(value) * D
                /\ \A m \in 1..Len(recs) :
                      LET f == (m - 1) \div D
                          d == (m - 1) % D
                      IN  /\ recs[m].path = <<key, d>>
                          /\ recs[m].kind = "Scalar"
                          /\ recs[m].time.frame_index = <<f>>
                          /\ recs[m].value = value[f + 1][d + 1]

C8_Witness ==
    \E n \in 1..Len(observations) :
        /\ n < k
        /\ Contains(observations[n].key, "robot_")
        /\ Len(observations[n].value) >= 2
        /\ Width(observations[n].value) >= 2
        /\ Len(RecordsAt(observations[n].key)) >= 4

(* C9: a channel whose name contains neither robot_ nor _depth has, once f
   of its frames are handled, f image records at path <name>, the m-th with
   the frame index m, made of rows 0, 2, 4, ... and columns 0, 2, 4, ... of
   the frame: ceil(H/2) rows of ceil(W/2) pixels; the whole channel of T
   frames gives T of them. *)
C9_ImageChannel ==
    \A n \in 1..Len(observations) :
        (/\ ~Contains(observations[n].key, "robot_")
         /\ ~Contains(observations[n].key, "_depth")) =>
            LET key == observations[n].key
                value == observations[n].value
                recs == RecordsAt(key)
            IN  /\ Len(recs) = FramesDone(n)
                /\ n < k => Len(recs) = Len(value)
                /\ \A m \in 1..Len(recs) :
                      LET frame == value[m]
                          H == Len(frame)
                          W == Width(frame)
                      IN  /\ recs[m].path = <<key>>
                          /\ recs[m].kind = "Image"
                          /\ recs[m].time.frame_index = <<m - 1>>
                          /\ Len(recs[m].value) = (H + 1) \div 2
                          /\ \A r \in 1..((H + 1) \div 2) :
                                /\ Len(recs[m].value[r]) = (W + 1) \div 2
                                /\ \A c \in 1..((W + 1) \div 2) :
                                      recs[m].value[r][c]
                                          = frame[2 * r - 1][2 * c - 1]

C9_Witness ==
    \E n \in 1..Len(observations) :
        /\ n < k
        /\ ~Contains(observations[n].key, "robot_")
        /\ ~Contains(observations[n].key, "_depth")
        /\ Len(observations[n].value) >= 2
        /\ Len(observations[n].value[1]) = 3
        /\ Width(observations[n].value[1]) = 2
        /\ Len(RecordsAt(observations[n].key)) >= 2

(* The timestamp axis as the action loop leaves it *)
LastActionStamp == IF Len(actions) = 0 THEN <<>> ELSE <<Len(actions) - 1>>

(* C10: only an iteration of the action loop changes the timestamp axis;
   every record of an observation channel carries the timestamp of the last
   action frame, and the first record of each channel has frame index 0. *)
C10_TimestampOnlyInActionLoop ==
    /\ [][timeline'.timestamp # timeline.timestamp
            => (pc = "action_loop" /\ i < Len(actions))]_vars
    /\ [](\A n \in 1..Len(log) :
            ~IsAt("action", log[n])
                => log[n].time.timestamp = LastActionStamp)
    /\ [](\A n \in 1..Len(observations) :
            LET recs == RecordsAt(observations[n].key)
            IN  recs # <<>> => recs[1].time.frame_index = <<0>>)

C10_Witness ==
    /\ Len(actions) = 1
    /\ \E n \in 1..Len(log) :
          /\ ~IsAt("action", log[n])
          /\ log[n].time.frame_index = <<1>>
          /\ log[n].time.timestamp = <<0>>
    /\ \E n \in 1..Len(observations) :
          n >= 2 /\ RecordsAt(observations[n].key) # <<>>

====
